---- MODULE Spec2Model ----
(***************************************************************************)
(* A model of src/src/models/vae.py: the ODE-VAE (RNNEncoder,              *)
(* NeuralODEDecoder, ODEVAE) and its loss and metric functions.            *)
(*                                                                         *)
(* Tensors are nested sequences: a 3-D tensor T is indexed T[step][batch]  *)
(* [feature] (1-based), a 2-D tensor M is M[batch][column].  Observations  *)
(* and timestamps are integers.  Hidden and latent activations are         *)
(* fixed-point numbers in thousandths ("milli").  Exact fractions (the     *)
(* metrics' means) are pairs <<numerator, denominator>> in lowest terms.   *)
(* Floating-point rounding is not modelled.                                *)
(***************************************************************************)
EXTENDS Integers, Sequences, FiniteSets, TLC

VARIABLES vae, x, t_encoder, t_decoder, ret, ncalls, held

vars == <<vae, x, t_encoder, t_decoder, ret, ncalls, held>>

(***************************************************************************)
(* Sizes explored.                                                         *)
(***************************************************************************)
MaxSteps == 4
MaxBatch == 2
MaxDecSteps == 2
MaxLatent == 2
MaxLen == 2
MaxHalf == 2
MaxLogvar == 1

\* Timestamps the caller may load (any sequence over these, sorted or not).
TimeVals == {0, 1, 3, 6}
\* Query times of the decoder (any order: monotonicity is not enforced).
DecVals == {0, 2}
\* Standard-normal draws of the sampler, in milli.
NoiseVals == {-1000, 500}

NoObject == [kind |-> "none"]
NoTensor == <<>>
NoCall == [op |-> "none"]
NoArgs == [kind |-> "none"]

(***************************************************************************)
(* Arithmetic helpers.                                                     *)
(***************************************************************************)
Abs(a) == IF a < 0 THEN -a ELSE a

RECURSIVE Gcd(_, _)
Gcd(a, b) == IF b = 0 THEN a ELSE Gcd(b, a % b)

\* The fraction n/d (d > 0) in lowest terms.
Frac(n, d) == LET g == Gcd(Abs(n), d) IN <<n \div g, d \div g>>

RECURSIVE SumSeq(_)
SumSeq(s) == IF s = <<>> THEN 0 ELSE Head(s) + SumSeq(Tail(s))

(***************************************************************************)
(* Tensor helpers (torch operations used by the source).                   *)
(***************************************************************************)
\* torch.cat((a, b), dim=-1) on 3-D tensors of equal leading shape.
CatLast(a, b) ==
    [i \in 1..Len(a) |-> [k \in 1..Len(a[i]) |-> a[i][k] \o b[i][k]]]

\* A variant of Flip0 that leaves the steps in chronological order.
Flip0Omitted(a) == a

\* Tensor.flip((0,)): reverse along the first axis.
Flip0(a) == [i \in 1..Len(a) |-> a[Len(a) + 1 - i]]

\* Tensor.float(): exact on the integers below 2^24, rounded to even above.
ToFloat(v) == IF Abs(v) <= 16777216 THEN v ELSE 2 * (v \div 2)

FloatT(a) ==
    [i \in 1..Len(a) |->
        [k \in 1..Len(a[i]) |->
            [f \in 1..Len(a[i][k]) |-> ToFloat(a[i][k][f])]]]

\* The shape of a rectangular 3-D tensor, <<-1>> when it is ragged.
Shape3(a) ==
    IF Len(a) = 0 THEN <<0>>
    ELSE IF \E i \in 1..Len(a) : Len(a[i]) # Len(a[1]) THEN <<-1>>
    ELSE IF Len(a[1]) = 0 THEN <<Len(a), 0>>
    ELSE IF \E i \in 1..Len(a), k \in 1..Len(a[1]) :
                Len(a[i][k]) # Len(a[1][1]) THEN <<-1>>
    ELSE <<Len(a), Len(a[1]), Len(a[1][1])>>

\* The shape of a rectangular 2-D tensor.
Shape2(m) ==
    IF Len(m) = 0 THEN <<0>>
    ELSE IF \E k \in 1..Len(m) : Len(m[k]) # Len(m[1]) THEN <<-1>>
    ELSE <<Len(m), Len(m[1])>>

(***************************************************************************)
(* Learned parameters.  The weights are whatever training left; the model  *)
(* takes them as a fixed function of the module's seed.                    *)
(***************************************************************************)
Weight(seed, j, i) == ((seed + 2 * j + i) % 3) - 1
Bias(seed, j) == 500 * ((seed + j) % 2)

\* nn.Linear(n_in, n_out) applied to one vector.
Linear(seed, n_out, v) ==
    [j \in 1..n_out |->
        Bias(seed, j) + SumSeq([i \in 1..Len(v) |-> Weight(seed, j, i) * v[i]])]

\* Saturating activation of a recurrent cell, in milli, on a grid of 500.
Squash(v) ==
    IF v >= 750 THEN 1000
    ELSE IF v >= 250 THEN 500
    ELSE IF v > -250 THEN 0
    ELSE IF v > -750 THEN -500
    ELSE -1000

(***************************************************************************)
(* RNNEncoder.                                                             *)
(***************************************************************************)
allowed_encoders == <<"gru", "grud">>

\* The ValueError of lines 31 and 51: its message is formatted from the
\* encoder name and the list of allowed encoders.
InvalidEncoder(encoder) ==
    [type |-> "ValueError", specified |-> encoder, allowed |-> allowed_encoders]

\* A variant of RNNEncoderInit that falls back to the dense GRU for any name
\* it does not know.
RNNEncoderInitFallback(input_dim, hidden_dim, latent_dim, encoder, seed) ==
    [raised |-> FALSE,
     obj |-> [input_dim |-> input_dim, hidden_dim |-> hidden_dim,
              latent_dim |-> latent_dim, encoder |-> encoder,
              allowed_encoders |-> allowed_encoders, seed |-> seed,
              rnn |-> IF encoder = "grud" THEN "GRUD_cell" ELSE "GRU"]]

\* RNNEncoder.__init__: the constructed module, or the error it raises.
RNNEncoderInit(input_dim, hidden_dim, latent_dim, encoder, seed) ==
    LET self == [input_dim |-> input_dim, hidden_dim |-> hidden_dim,
                 latent_dim |-> latent_dim, encoder |-> encoder,
                 allowed_encoders |-> allowed_encoders, seed |-> seed]
    IN  IF encoder = "gru"
          THEN [raised |-> FALSE, obj |-> self @@ [rnn |-> "GRU"]]
        ELSE IF encoder = "grud"
          THEN [raised |-> FALSE, obj |-> self @@ [rnn |-> "GRUD_cell"]]
        ELSE [raised |-> TRUE, err |-> InvalidEncoder(encoder)]

\* A variant of Clone that keeps working on the caller's buffer.
CloneOmitted(t) == [caller |-> t, local |-> t, aliased |-> TRUE]

\* t.clone(): a buffer of the callee's own holding the caller's values.
Clone(t) == [caller |-> t, local |-> t, aliased |-> FALSE]

\* An in-place write through the callee's name t.
WriteLocal(buf, v) ==
    [buf EXCEPT !.local = v, !.caller = IF buf.aliased THEN v ELSE @]

SubRows(a, b) ==
    [k \in 1..Len(a) |-> [f \in 1..Len(a[k]) |-> a[k][f] - b[k][f]]]

\* A variant of SliceDiff that updates step by step in place, so that step i
\* reads the already rewritten step i - 1.
SliceDiffSequential(t) ==
    LET u[i \in 1..Len(t)] == IF i = 1 THEN t[1] ELSE SubRows(u[i - 1], t[i])
    IN  [i \in 1..Len(t) |-> u[i]]

\* t[1:] = t[:-1] - t[1:]: the right-hand side is a new tensor computed from
\* the values before the assignment.
SliceDiff(t) ==
    [i \in 1..Len(t) |-> IF i = 1 THEN t[1] ELSE SubRows(t[i - 1], t[i])]

\* t[0] = 0.
SetFirstZero(t) ==
    [i \in 1..Len(t) |->
        IF i = 1 THEN [k \in 1..Len(t[1]) |-> [f \in 1..Len(t[1][k]) |-> 0]]
        ELSE t[i]]

\* One step of the dense GRU on one batch element's feature vector.
GruStep(seed, h, v) ==
    [j \in 1..Len(h) |->
        Squash((h[j] \div 2)
               + 250 * SumSeq([i \in 1..Len(v) |-> Weight(seed, j, i) * v[i]]))]

RECURSIVE GruRun(_, _, _)
GruRun(seed, h, steps) ==
    IF steps = <<>> THEN h
    ELSE GruRun(seed, GruStep(seed, h, Head(steps)), Tail(steps))

\* nn.GRU(input_dim + 1, hidden_dim) on a step-major input: the final hidden
\* state h_n of shape (1, batch, hidden_dim).
nn_GRU(self, inp) ==
    << [k \in 1..Len(inp[1]) |->
          GruRun(self.seed, [j \in 1..self.hidden_dim |-> 0],
                 [i \in 1..Len(inp) |-> inp[i][k]])] >>

\* One step of the GRU-D cell: the observation features and the elapsed time
\* (the last feature) are taken apart again.
GrudStep(seed, h, v) ==
    LET obs == SubSeq(v, 1, Len(v) - 1)
        delta == v[Len(v)]
    IN  [j \in 1..Len(h) |->
            Squash((h[j] \div (1 + Abs(delta)))
                   + 250 * SumSeq([i \in 1..Len(obs) |->
                                      Weight(seed + 1, j, i) * obs[i]]))]

RECURSIVE GrudStates(_, _, _)
GrudStates(seed, h, steps) ==
    IF steps = <<>> THEN <<>>
    ELSE LET h1 == GrudStep(seed, h, Head(steps))
         IN  <<h1>> \o GrudStates(seed, h1, Tail(steps))

\* call_gru_d(cell, inp): the hidden states of every step, batch-major,
\* shape (batch, steps, hidden_dim).
call_gru_d(self, inp) ==
    [k \in 1..Len(inp[1]) |->
        GrudStates(self.seed, [j \in 1..self.hidden_dim |-> 0],
                   [i \in 1..Len(inp) |-> inp[i][k]])]

\* torch.permute(torch.unsqueeze(h0[:, -1, :], 1), (1, 0, 2)).
LastStepHidden(hs) == << [k \in 1..Len(hs) |-> hs[k][Len(hs[k])]] >>

\* z0[:, :latent_dim] and z0[:, latent_dim:].
ColsTo(m, n) == [k \in 1..Len(m) |-> SubSeq(m[k], 1, n)]
ColsFrom(m, n) == [k \in 1..Len(m) |-> SubSeq(m[k], n + 1, Len(m[k]))]

\* RNNEncoder.forward(x, t).
RNNEncoderForward(self, xa, ta) ==
    LET b0 == Clone(ta)
        b1 == WriteLocal(b0, SliceDiff(b0.local))
        b2 == WriteLocal(b1, SetFirstZero(b1.local))
        xt == CatLast(xa, b2.local)
        inp == FloatT(Flip0(xt))
        seen == [caller_t |-> b2.caller, new_t |-> b2.local, rnn_in |-> inp]
    IN  IF self.encoder \notin {"gru", "grud"}
          THEN seen @@ [raised |-> TRUE, err |-> InvalidEncoder(self.encoder)]
        ELSE
          LET h0 == IF self.encoder = "gru" THEN nn_GRU(self, inp)
                    ELSE LastStepHidden(call_gru_d(self, inp))
              z0 == [k \in 1..Len(h0[1]) |->
                        Linear(self.seed, 2 * self.latent_dim, h0[1][k])]
          IN  seen @@ [raised |-> FALSE, h0 |-> h0, z0 |-> z0,
                       mu |-> ColsTo(z0, self.latent_dim),
                       logvar |-> ColsFrom(z0, self.latent_dim)]

(***************************************************************************)
(* The reparameterization sampler (helpers.utils.reparameterize).          *)
(***************************************************************************)
\* exp(logvar / 2) in milli for logvar = -3000, -2500, ..., 3000 milli.
ExpHalfTable ==
    <<223, 287, 368, 472, 607, 779, 1000, 1284, 1649, 2117, 2718, 3490, 4482>>

ExpHalfMilli(lv) == ExpHalfTable[((lv + 3000) \div 500) + 1]

\* z = mu + exp(0.5 * logvar) * eps, eps the standard-normal draw.
reparameterize(mu, logvar, eps) ==
    [k \in 1..Len(mu) |->
        [l \in 1..Len(mu[k]) |->
            mu[k][l] + ((ExpHalfMilli(logvar[k][l]) * eps[k][l]) \div 1000)]]

(***************************************************************************)
(* NeuralODEDecoder.                                                       *)
(***************************************************************************)
NeuralODEDecoderInit(output_dim, hidden_dim, latent_dim, seed) ==
    [output_dim |-> output_dim, hidden_dim |-> hidden_dim,
     latent_dim |-> latent_dim, seed |-> seed]

\* The time-invariant vector field ODEFunc(latent_dim, hidden_dim).
ODEFunc(self, z) ==
    LET dz == Linear(self.seed + 2, self.latent_dim, z)
    IN  [l \in 1..Len(dz) |-> dz[l] \div 2]

\* One integration step of every batch element from query time a to b.
OdeStep(self, zb, a, b) ==
    [k \in 1..Len(zb) |->
        LET dz == ODEFunc(self, zb[k])
        IN  [l \in 1..Len(zb[k]) |-> zb[k][l] + (b - a) * dz[l]]]

RECURSIVE OdeStates(_, _, _, _)
OdeStates(self, zb, times, i) ==
    IF i > Len(times) THEN <<>>
    ELSE LET z1 == IF i = 1 THEN zb
                   ELSE OdeStep(self, zb, times[i - 1], times[i])
         IN  <<z1>> \o OdeStates(self, z1, times, i + 1)

\* NeuralODE(func)(z0, times): one latent state per query time, step-major.
NeuralODE(self, z0, times) == OdeStates(self, z0, times, 1)

\* A variant of SharedTimeAxis that reads the last batch element's times.
LastBatchTimeAxis(t) == [i \in 1..Len(t) |-> t[i][Len(t[i])][1]]

\* t[:, 0, 0]: the time axis of the first batch element.
SharedTimeAxis(t) == [i \in 1..Len(t) |-> t[i][1][1]]

\* A linear layer applied to every vector of a 3-D tensor.
LinearT(seed, n_out, a) ==
    [i \in 1..Len(a) |-> [k \in 1..Len(a[i]) |-> Linear(seed, n_out, a[i][k])]]

\* T.permute(1, 0, 2).
Permute102(a) ==
    [k \in 1..Len(a[1]) |-> [i \in 1..Len(a) |-> a[i][k]]]

\* A variant of NeuralODEDecoderForward that returns the reconstruction
\* batch-major (the permute of line 101).
NeuralODEDecoderForwardPermuted(self, z0, t) ==
    LET t_1d == SharedTimeAxis(t)
        zs == NeuralODE(self, z0, t_1d)
        hs == LinearT(self.seed + 3, self.hidden_dim, zs)
        xs == LinearT(self.seed + 4, self.output_dim, hs)
    IN  [z0 |-> z0, t_1d |-> t_1d, zs |-> zs, xs |-> Permute102(xs)]

\* NeuralODEDecoder.forward(z0, t).
NeuralODEDecoderForward(self, z0, t) ==
    LET t_1d == SharedTimeAxis(t)
        zs == NeuralODE(self, z0, t_1d)
        hs == LinearT(self.seed + 3, self.hidden_dim, zs)
        xs == LinearT(self.seed + 4, self.output_dim, hs)
    IN  [z0 |-> z0, t_1d |-> t_1d, zs |-> zs, xs |-> xs]

(***************************************************************************)
(* ODEVAE.                                                                 *)
(***************************************************************************)
\* ODEVAE.__init__: the constructed module, or the error the encoder raised.
ODEVAEInit(output_dim, hidden_dim, latent_dim, encoder, seed) ==
    LET enc == RNNEncoderInit(output_dim, hidden_dim, latent_dim, encoder, seed)
    IN  IF enc.raised THEN enc
        ELSE [raised |-> FALSE,
              obj |-> [kind |-> "ODEVAE", output_dim |-> output_dim,
                       hidden_dim |-> hidden_dim, latent_dim |-> latent_dim,
                       encoder |-> encoder, rnn_encoder |-> enc.obj,
                       neural_decoder |->
                           NeuralODEDecoderInit(output_dim, hidden_dim,
                                                latent_dim, seed)]]

\* A variant of LatentSample that samples whatever MAP says.
LatentSampleAlways(MAP, mu, logvar, eps) == reparameterize(mu, logvar, eps)

\* The latent state ODEVAE.forward hands to the decoder.
LatentSample(MAP, mu, logvar, eps) ==
    IF MAP THEN mu ELSE reparameterize(mu, logvar, eps)

\* ODEVAE.forward(x, t_encoder, t_decoder, MAP); eps is the noise the sampler
\* draws when it is called.
ODEVAEForward(self, xa, te, td, MAP, eps) ==
    LET enc == RNNEncoderForward(self.rnn_encoder, xa, te)
    IN  IF enc.raised THEN enc
        ELSE LET z == LatentSample(MAP, enc.mu, enc.logvar, eps)
                 dec == NeuralODEDecoderForward(self.neural_decoder, z, td)
             IN  enc @@ [z |-> z, sampler_calls |-> IF MAP THEN 0 ELSE 1,
                         dec_z0 |-> dec.z0, t_1d |-> dec.t_1d, x_p |-> dec.xs]

(***************************************************************************)
(* Loss and metric functions.                                              *)
(***************************************************************************)
\* exp(lv) in milli for lv = -3, ..., 3.
ExpTable == <<50, 135, 368, 1000, 2718, 7389, 20086>>

ExpMilli(lv) == ExpTable[lv + 4]

\* ((x - x_p)**2).sum(-1).sum(0): per batch element, over features, then
\* over steps.
SquaredError(x_p, xa) ==
    [k \in 1..Len(xa[1]) |->
        SumSeq([i \in 1..Len(xa) |->
            SumSeq([f \in 1..Len(xa[i][k]) |->
                (xa[i][k][f] - x_p[i][k][f]) * (xa[i][k][f] - x_p[i][k][f])])])]

\* A variant of KlSum without the constant 1 of the summand.
KlSumNoOne(mu, logvar) ==
    [k \in 1..Len(mu) |->
        SumSeq([l \in 1..Len(mu[k]) |->
            1000 * logvar[k][l] - 1000 * mu[k][l] * mu[k][l]
                 - ExpMilli(logvar[k][l])])]

\* torch.sum(1 + logvar - mu**2 - torch.exp(logvar), -1), in milli.
KlSum(mu, logvar) ==
    [k \in 1..Len(mu) |->
        SumSeq([l \in 1..Len(mu[k]) |->
            1000 + 1000 * logvar[k][l] - 1000 * mu[k][l] * mu[k][l]
                 - ExpMilli(logvar[k][l])])]

\* vae_loss_function(device, x_p, x, z, mu, logvar).  The two terms are kept
\* in units of 1/2000, so that the factors 0.5 and -0.5 are exact.
vae_loss_function(x_p, xa, z, mu, logvar) ==
    LET se == SquaredError(x_p, xa)
        ks == KlSum(mu, logvar)
        reconstruction_loss == [k \in 1..Len(se) |-> 1000 * se[k]]
        kl_loss == [k \in 1..Len(ks) |-> -ks[k]]
        loss == [k \in 1..Len(se) |-> reconstruction_loss[k] + kl_loss[k]]
    IN  Frac(SumSeq(loss), 2000 * Len(loss))

\* Metric inputs are in halves: the entry k stands for k / 2.
\* torch.round: to the nearest integer, a tie to the even one.
Round(k) ==
    IF k % 2 = 0 THEN k \div 2
    ELSE LET m == (k - 1) \div 2 IN IF m % 2 = 0 THEN m ELSE m + 1

NaN == <<0, 0>>

FracAdd(a, b) ==
    IF a = NaN \/ b = NaN THEN NaN
    ELSE Frac(a[1] * b[2] + b[1] * a[2], a[2] * b[2])

FracScale(c, a) == IF a = NaN THEN NaN ELSE Frac(c * a[1], a[2])

FracDiv(a, n) == IF a = NaN THEN NaN ELSE Frac(a[1], a[2] * n)

RECURSIVE FracSum(_)
FracSum(s) == IF s = <<>> THEN <<0, 1>> ELSE FracAdd(Head(s), FracSum(Tail(s)))

\* torch.mean of a tensor of fractions.
Mean(s) == FracDiv(FracSum(s), Len(s))

\* A variant of WhereZero without the guard: 0 / 0 is NaN.
WhereZeroUnguarded(num, summ) == IF summ = 0 THEN NaN ELSE Frac(num, summ)

\* torch.where(summ == 0, zeros, num / summ) for one element.
WhereZero(num, summ) == IF summ = 0 THEN <<0, 1>> ELSE Frac(num, summ)

\* rounded_smape(device, y_true, y_pred): the difference of the rounded
\* values (whole units, int32) over the unrounded denominator (halves).
rounded_smape(y_true, y_pred) ==
    LET y_true_copy == [i \in 1..Len(y_true) |-> Round(y_true[i])]
        y_pred_copy == [i \in 1..Len(y_pred) |-> Round(y_pred[i])]
        summ == [i \in 1..Len(y_true) |-> Abs(y_true[i]) + Abs(y_pred[i])]
        smape == [i \in 1..Len(summ) |->
                     WhereZero(2 * Abs(y_pred_copy[i] - y_true_copy[i]), summ[i])]
    IN  Mean(smape)

\* kaggle_smape(device, y_true, y_pred).
kaggle_smape(y_true, y_pred) ==
    LET summ == [i \in 1..Len(y_true) |-> Abs(y_true[i]) + Abs(y_pred[i])]
        smape == [i \in 1..Len(summ) |->
                     WhereZero(Abs(y_pred[i] - y_true[i]), summ[i])]
    IN  FracScale(200, Mean(smape))

(***************************************************************************)
(* The callers' inputs.  A configuration names the sets an exploration     *)
(* draws them from.                                                        *)
(***************************************************************************)
MaxCalls == 2

\* Observations: distinct values, so that a misplaced one shows.
XTensor(n, B, F) ==
    [i \in 1..n |-> [k \in 1..B |-> [f \in 1..F |-> 100 * i + 10 * k + f]]]

\* Encoder timestamps of shape (n, B, 1): batch element k holds its own
\* sequence, the drawn one shifted by (k - 1) more per step.
EncTimes(n, B, rich) ==
    IF rich
      THEN { [i \in 1..n |-> [k \in 1..B |-> <<s[i] + (k - 1) * (i - 1)>>]] :
                s \in [1..n -> TimeVals] }
      ELSE { [i \in 1..n |-> [k \in 1..B |-> <<2 * i + k>>]] }

\* Decoder query times of shape (D, B, 1).
DecTimes(D, B, rich) ==
    IF rich
      THEN { [i \in 1..D |-> [k \in 1..B |-> <<g[i][k]>>]] :
                g \in [1..D -> [1..B -> DecVals]] }
      ELSE { [i \in 1..D |-> [k \in 1..B |-> <<i - 1>>]] }

\* The sampler's draws of shape (B, L).
Noise(B, L, rich) ==
    IF rich THEN [1..B -> [1..L -> NoiseVals]]
    ELSE { [k \in 1..B |-> [l \in 1..L |-> 500]] }

EncCfg ==
    [names |-> {"gru", "grud"}, tamper |-> {"bogus"}, outdims |-> {1},
     latdims |-> {1}, seeds |-> {0}, steps |-> 1..MaxSteps,
     batches |-> {1, MaxBatch}, dsteps |-> {1}, calls |-> MaxCalls,
     richEnc |-> TRUE, richDec |-> FALSE, richNoise |-> FALSE]

DecCfg ==
    [names |-> {"gru", "grud"}, tamper |-> {"bogus"}, outdims |-> {2},
     latdims |-> {1, MaxLatent}, seeds |-> {0}, steps |-> {1, 3},
     batches |-> 1..MaxBatch, dsteps |-> 1..MaxDecSteps, calls |-> 1,
     richEnc |-> FALSE, richDec |-> TRUE, richNoise |-> FALSE]

VaeCfg ==
    [names |-> {"gru", "grud", "lstm", "bogus", ""},
     tamper |-> {"lstm", "bogus"}, outdims |-> {1},
     latdims |-> 1..MaxLatent, seeds |-> {0, 1}, steps |-> {2},
     batches |-> 1..MaxBatch, dsteps |-> {2}, calls |-> 1,
     richEnc |-> FALSE, richDec |-> FALSE, richNoise |-> TRUE]

(***************************************************************************)
(* State machine: the operations a caller performs on the module.          *)
(***************************************************************************)
Init ==
    /\ vae = NoObject
    /\ x = NoTensor
    /\ t_encoder = NoTensor
    /\ t_decoder = NoTensor
    /\ ret = NoCall
    /\ ncalls = 0
    /\ held = NoArgs

\* model = ODEVAE(output_dim, hidden_dim, latent_dim, encoder), before any
\* batch is loaded: on an error the assignment does not happen.
Construct(cfg) ==
    /\ x = NoTensor
    /\ \E enc \in cfg.names, od \in cfg.outdims, ld \in cfg.latdims,
          seed \in cfg.seeds :
        LET r == ODEVAEInit(od, 2, ld, enc, seed)
        IN  /\ vae' = IF r.raised THEN vae ELSE r.obj
            /\ ret' = [op |-> "construct", encoder |-> enc] @@ r
    /\ UNCHANGED <<x, t_encoder, t_decoder, ncalls, held>>

\* model.rnn_encoder.encoder = name: the attribute of line 24 reassigned
\* after construction, the only way an unrecognized variant reaches forward.
SetEncoderAttr(cfg) ==
    /\ vae # NoObject
    /\ \E name \in cfg.tamper :
        /\ vae' = [vae EXCEPT !.rnn_encoder.encoder = name]
        /\ ret' = [op |-> "setattr", encoder |-> name]
    /\ UNCHANGED <<x, t_encoder, t_decoder, ncalls, held>>

\* The caller loads a batch shaped for the model it holds.
LoadBatch(cfg) ==
    /\ vae # NoObject
    /\ x = NoTensor
    /\ \E n \in cfg.steps, B \in cfg.batches, D \in cfg.dsteps :
        /\ x' = XTensor(n, B, vae.output_dim)
        /\ t_encoder' \in EncTimes(n, B, cfg.richEnc)
        /\ t_decoder' \in DecTimes(D, B, cfg.richDec)
    /\ ret' = NoCall
    /\ ncalls' = 0
    /\ UNCHANGED <<vae, held>>

\* The caller drops its batch.
Discard ==
    /\ x # NoTensor
    /\ x' = NoTensor
    /\ t_encoder' = NoTensor
    /\ t_decoder' = NoTensor
    /\ ret' = NoCall
    /\ ncalls' = 0
    /\ UNCHANGED <<vae, held>>

\* model(x, t_encoder, t_decoder, MAP) on the caller's tensors.
Forward(cfg) ==
    /\ vae # NoObject
    /\ x # NoTensor
    /\ ncalls < cfg.calls
    /\ \E MAP \in BOOLEAN :
       \E eps \in Noise(Len(x[1]), vae.latent_dim, cfg.richNoise) :
        LET r == ODEVAEForward(vae, x, t_encoder, t_decoder, MAP, eps)
        IN  /\ ret' = [op |-> "forward",
                       args |-> [self |-> vae, x |-> x, t_encoder |-> t_encoder,
                                 t_decoder |-> t_decoder, MAP |-> MAP,
                                 eps |-> eps]] @@ r
            /\ t_encoder' = r.caller_t
    /\ ncalls' = ncalls + 1
    /\ UNCHANGED <<vae, x, t_decoder, held>>

NextFor(cfg) ==
    \/ Construct(cfg)
    \/ SetEncoderAttr(cfg)
    \/ LoadBatch(cfg)
    \/ Discard
    \/ Forward(cfg)

NextEnc == NextFor(EncCfg)
NextDec == NextFor(DecCfg)
NextVae == NextFor(VaeCfg)

SpecEnc == Init /\ [][NextEnc]_vars
SpecDec == Init /\ [][NextDec]_vars
SpecVae == Init /\ [][NextVae]_vars

(***************************************************************************)
(* The loss and the metrics as pure functions: the initial state draws the *)
(* tensors the caller holds, the actions apply a function to them.         *)
(***************************************************************************)
\* Shapes (steps, features, latent dimensions) of the loss's arguments.
LossShapes == {<<1, 1, 1>>, <<2, 1, 1>>, <<1, 2, 1>>, <<1, 1, 2>>}

Tensors3(D, B, F, vals) == [1..D -> [1..B -> [1..F -> vals]]]

Tensors2(B, L, vals) == [1..B -> [1..L -> vals]]

\* x_p is x with a per-element reconstruction error.
AddT(a, d) ==
    [i \in 1..Len(a) |->
        [k \in 1..Len(a[i]) |-> [f \in 1..Len(a[i][k]) |-> a[i][k][f] + d[i][k][f]]]]

\* The arguments of one vae_loss_function call.
VaeArgs(sh, B, d, mu, lv) ==
    [kind |-> "vae", x |-> XTensor(sh[1], B, sh[2]),
     x_p |-> AddT(XTensor(sh[1], B, sh[2]), d), mu |-> mu, logvar |-> lv]

InitLoss ==
    /\ vae = NoObject
    /\ x = NoTensor
    /\ t_encoder = NoTensor
    /\ t_decoder = NoTensor
    /\ ret = NoCall
    /\ ncalls = 0
    /\ \/ \E sh \in LossShapes, B \in {1, 2} :
            \E d \in Tensors3(sh[1], B, sh[2], {-1, 0, 1}),
               mu \in Tensors2(B, sh[3], {-1, 0}),
               lv \in Tensors2(B, sh[3], (-MaxLogvar)..MaxLogvar) :
                held = VaeArgs(sh, B, d, mu, lv)
       \/ \E n \in 1..MaxLen :
            \E yt \in [1..n -> (-MaxHalf)..MaxHalf],
               yp \in [1..n -> (-MaxHalf)..MaxHalf] :
                held = [kind |-> "metric", y_true |-> yt, y_pred |-> yp]

CallVaeLoss ==
    /\ held.kind = "vae"
    /\ ret' = [op |-> "vae_loss_function",
               value |-> vae_loss_function(held.x_p, held.x, held.mu,
                                           held.mu, held.logvar)]
    /\ UNCHANGED <<vae, x, t_encoder, t_decoder, ncalls, held>>

CallRoundedSmape ==
    /\ held.kind = "metric"
    /\ ret' = [op |-> "rounded_smape",
               value |-> rounded_smape(held.y_true, held.y_pred)]
    /\ UNCHANGED <<vae, x, t_encoder, t_decoder, ncalls, held>>

CallKaggleSmape ==
    /\ held.kind = "metric"
    /\ ret' = [op |-> "kaggle_smape",
               value |-> kaggle_smape(held.y_true, held.y_pred)]
    /\ UNCHANGED <<vae, x, t_encoder, t_decoder, ncalls, held>>

NextLoss ==
    \/ CallVaeLoss
    \/ CallRoundedSmape
    \/ CallKaggleSmape

SpecLoss == InitLoss /\ [][NextLoss]_vars

(***************************************************************************)
(* Properties.                                                             *)
(***************************************************************************)
Fwd == ret.op = "forward"
FwdOk == Fwd /\ ~ret.raised

\* The elapsed time the documentation gives for step i of batch element k.
ElapsedOf(t, i, k) == IF i = 1 THEN 0 ELSE t[i - 1][k][1] - t[i][k][1]

\* A (n, 1, 1) tensor holding the sequence s.
Column(s) == [i \in 1..Len(s) |-> << <<s[i]>> >>]

\* C1: after every forward call on timestamps t of n >= 1 steps, the internal
\* elapsed-time tensor has n steps, is 0 at the first step and is
\* t[i-1] - t[i] of the original timestamps at every later step, for every
\* batch element; t = [0,1,3,6] gives [0,-1,-2,-3].
C1_TimeDelta ==
    Fwd =>
        LET t == ret.args.t_encoder
        IN  /\ Len(ret.new_t) = Len(t)
            /\ \A i \in 1..Len(t) :
                 /\ Len(ret.new_t[i]) = Len(t[i])
                 /\ \A k \in 1..Len(t[i]) :
                        ret.new_t[i][k] = <<ElapsedOf(t, i, k)>>
            /\ (t = Column(<<0, 1, 3, 6>>)
                  => ret.new_t = Column(<<0, -1, -2, -3>>))

C1_Witness ==
    /\ Fwd
    /\ ret.args.t_encoder = Column(<<0, 1, 3, 6>>)
    /\ ret.new_t = Column(<<0, -1, -2, -3>>)

\* C8: the k-th step the recurrent core consumes is the observation of step
\* n+1-k joined with the elapsed time of that same step, the elapsed times
\* being those of the chronological sequence.
C8_ReverseOrder ==
    FwdOk =>
        LET t == ret.args.t_encoder
            n == Len(t)
        IN  /\ Len(ret.rnn_in) = n
            /\ \A k \in 1..n : \A b \in 1..Len(t[1]) :
                 ret.rnn_in[k][b] =
                    ret.args.x[n + 1 - k][b] \o <<ElapsedOf(t, n + 1 - k, b)>>

C8_Witness ==
    /\ FwdOk
    /\ Len(ret.rnn_in) = 3
    /\ Len(ret.rnn_in[1]) = 2
    /\ ret.rnn_in[1] # ret.rnn_in[3]
    /\ ret.rnn_in[1][1] = ret.args.x[3][1] \o <<ElapsedOf(ret.args.t_encoder, 3, 1)>>
    /\ ElapsedOf(ret.args.t_encoder, 3, 1) # ElapsedOf(ret.args.t_encoder, 2, 1)

\* C10: a forward call leaves the caller's x, t_encoder and t_decoder as they
\* were, and the elapsed times it computes are those of the timestamps the
\* caller still holds, at the first call and at every later one.
C10_InputsUnchanged ==
    [][ncalls' = ncalls + 1 =>
          /\ t_encoder' = t_encoder
          /\ x' = x
          /\ t_decoder' = t_decoder
          /\ \A i \in 1..Len(t_encoder) : \A k \in 1..Len(t_encoder[i]) :
                ret'.new_t[i][k] = <<ElapsedOf(t_encoder, i, k)>>]_vars

C10_Witness ==
    /\ Fwd
    /\ ncalls = 2
    /\ Len(t_encoder) >= 2
    /\ ret.new_t # t_encoder
    /\ t_encoder = ret.args.t_encoder

\* C3: a construction with a name outside the allowed list raises an error
\* that names the value and the allowed list, and one with an allowed name
\* succeeds; the model a caller holds was built with an allowed name; a
\* forward call that meets an unrecognized name raises the same error and
\* returns no latent parameters.
C3_InvalidEncoder ==
    /\ ret.op = "construct" =>
         IF ret.encoder \in {"gru", "grud"}
           THEN /\ ~ret.raised
                /\ ret.obj.rnn_encoder.encoder = ret.encoder
                /\ vae = ret.obj
           ELSE /\ ret.raised
                /\ "obj" \notin DOMAIN ret
                /\ ret.err.type = "ValueError"
                /\ ret.err.specified = ret.encoder
                /\ ret.err.allowed = <<"gru", "grud">>
    /\ vae # NoObject =>
         /\ vae.encoder \in {"gru", "grud"}
         /\ vae.rnn_encoder.rnn = IF vae.encoder = "gru" THEN "GRU" ELSE "GRUD_cell"
    /\ (Fwd /\ ret.args.self.rnn_encoder.encoder \notin {"gru", "grud"}) =>
         /\ ret.raised
         /\ "mu" \notin DOMAIN ret
         /\ ret.err.type = "ValueError"
         /\ ret.err.specified = ret.args.self.rnn_encoder.encoder
         /\ ret.err.allowed = <<"gru", "grud">>

C3_Witness ==
    /\ vae # NoObject
    /\ ret.op = "construct"
    /\ ret.encoder = "bogus"
    /\ ret.raised
    /\ ret.err.specified = "bogus"

\* C4: with MAP the returned z is the returned mu, the sampler is not called
\* and the decoder runs on that z; without MAP z is the sampler's output for
\* mu, logvar and the noise it drew, and the decoder runs on it.
C4_MapBypass ==
    FwdOk =>
        /\ ret.dec_z0 = ret.z
        /\ ret.x_p = NeuralODEDecoderForward(ret.args.self.neural_decoder,
                                             ret.z, ret.args.t_decoder).xs
        /\ IF ret.args.MAP
             THEN ret.z = ret.mu /\ ret.sampler_calls = 0
             ELSE /\ ret.z = reparameterize(ret.mu, ret.logvar, ret.args.eps)
                  /\ ret.sampler_calls = 1

C4_Witness ==
    /\ FwdOk
    /\ ret.args.MAP
    /\ ret.z = ret.mu
    /\ reparameterize(ret.mu, ret.logvar, ret.args.eps) # ret.mu
    /\ \E k \in 1..Len(ret.logvar) : \E l \in 1..Len(ret.logvar[k]) :
          ret.logvar[k][l] # 0

\* C7: x_hat has shape (decoder steps, batch, output_dim) whatever the number
\* of encoder steps; z, mu and logvar have shape (batch, latent_dim); mu is
\* the first latent_dim columns of the projection of the hidden summary and
\* logvar the remaining latent_dim columns.
C7_OutputShapes ==
    FwdOk =>
        LET self == ret.args.self
            B == Len(ret.args.x[1])
            D == Len(ret.args.t_decoder)
            L == self.latent_dim
        IN  /\ Shape3(ret.x_p) = <<D, B, self.output_dim>>
            /\ Shape2(ret.z) = <<B, L>>
            /\ Shape2(ret.mu) = <<B, L>>
            /\ Shape2(ret.logvar) = <<B, L>>
            /\ Shape2(ret.z0) = <<B, 2 * L>>
            /\ \A k \in 1..B :
                 /\ ret.z0[k] = Linear(self.rnn_encoder.seed, 2 * L, ret.h0[1][k])
                 /\ \A l \in 1..L :
                      /\ ret.mu[k][l] = ret.z0[k][l]
                      /\ ret.logvar[k][l] = ret.z0[k][L + l]

C7_Witness ==
    /\ FwdOk
    /\ Len(ret.args.x) = 3
    /\ Shape3(ret.x_p) = <<1, 2, 2>>
    /\ Shape2(ret.mu) = <<2, 2>>
    /\ ret.mu # ret.logvar

\* The tensor t with the entry of step i, batch element k set to v.
WithEntry(t, i, k, v) == [t EXCEPT ![i][k] = <<v>>]

\* C9: a decoder time tensor that differs from the one passed in one entry
\* of a batch element other than the first gives the same query times and
\* the same reconstruction.  (Every tensor agreeing on the first batch
\* element's axis is reached by such changes, one entry at a time.)
C9_SharedAxisOnly ==
    FwdOk =>
        LET td == ret.args.t_decoder
        IN  /\ ret.t_1d = [i \in 1..Len(td) |-> td[i][1][1]]
            /\ \A i \in 1..Len(td) : \A k \in 2..Len(td[i]) : \A v \in DecVals :
                 LET other == NeuralODEDecoderForward(
                                  ret.args.self.neural_decoder, ret.z,
                                  WithEntry(td, i, k, v))
                 IN  other.t_1d = ret.t_1d /\ other.xs = ret.x_p

C9_Witness ==
    /\ FwdOk
    /\ Len(ret.args.t_decoder) = 2
    /\ Len(ret.args.t_decoder[1]) = 2
    /\ ret.args.t_decoder[1][1] # ret.args.t_decoder[1][2]
    /\ ret.args.t_decoder[2][1] # ret.args.t_decoder[2][2]
    /\ ret.t_1d[1] # ret.t_1d[2]
    /\ ret.x_p[1] # ret.x_p[2]

AllZero2(m) == \A k \in 1..Len(m) : \A l \in 1..Len(m[k]) : m[k][l] = 0

\* The value the documentation gives for the loss, times 2000 * batch.
LossTimes2000B(a) ==
    SumSeq([k \in 1..Len(a.mu) |->
        1000 * SumSeq([i \in 1..Len(a.x) |->
                  SumSeq([f \in 1..Len(a.x[i][k]) |->
                      (a.x[i][k][f] - a.x_p[i][k][f])
                        * (a.x[i][k][f] - a.x_p[i][k][f])])])
        - SumSeq([l \in 1..Len(a.mu[k]) |->
              1000 + 1000 * a.logvar[k][l] - 1000 * a.mu[k][l] * a.mu[k][l]
                   - ExpMilli(a.logvar[k][l])])])

\* C6: the loss is never negative, is exactly 0 when mu = 0, logvar = 0 and
\* x_p = x, and is the batch mean of half the squared error plus minus half
\* the sum of 1 + logvar - mu^2 - exp(logvar).
C6_VaeLoss ==
    ret.op = "vae_loss_function" =>
        /\ ret.value[1] >= 0
        /\ ret.value[2] > 0
        /\ (AllZero2(held.mu) /\ AllZero2(held.logvar) /\ held.x_p = held.x)
              => ret.value = <<0, 1>>
        /\ ret.value[1] * 2000 * Len(held.mu) = ret.value[2] * LossTimes2000B(held)

C6_Witness ==
    /\ ret.op = "vae_loss_function"
    /\ Len(held.mu) = 2
    /\ Len(held.mu[1]) = 2
    /\ AllZero2(held.mu)
    /\ AllZero2(held.logvar)
    /\ held.x_p = held.x
    /\ ret.value = <<0, 1>>

\* C5: kaggle_smape of a tensor with itself is 0, zero elements included.
C5_KaggleSelfZero ==
    (ret.op = "kaggle_smape" /\ held.y_true = held.y_pred)
        => ret.value = <<0, 1>>

C5_Witness ==
    /\ ret.op = "kaggle_smape"
    /\ held.y_true = held.y_pred
    /\ Len(held.y_true) = 2
    /\ held.y_true[1] = 0
    /\ held.y_true[2] # 0
    /\ ret.value = <<0, 1>>

IntegerValued(y) == \A i \in 1..Len(y) : y[i] % 2 = 0

\* C2: on integer-valued inputs rounded_smape returns what kaggle_smape
\* returns.
C2_RoundedEqualsKaggle ==
    (ret.op = "rounded_smape" /\ IntegerValued(held.y_true)
                              /\ IntegerValued(held.y_pred))
        => ret.value = kaggle_smape(held.y_true, held.y_pred)

====
